---- MODULE Spec2Model ----
(***************************************************************************)
(* Fuel-request approval workflow of groupe-alh-carburation.               *)
(*                                                                         *)
(* The store is the Supabase/Postgres schema with its row-level-security   *)
(* policies (unnamed/part_000); the clients are browser sessions showing   *)
(* the FuelRequests page (unnamed/part_004) or the NewFuelRequest page     *)
(* (src/pages/NewFuelRequest.tsx).  Every await of a handler is a step of  *)
(* its own: the store applies the call, the handler resumes and issues the *)
(* next call.  Any store call may also fail (network, timeout), in which   *)
(* case supabase-js returns an error object.                               *)
(***************************************************************************)
EXTENDS Integers, Sequences, FiniteSets, Bags, TLC

(* ------------------------------ bounds --------------------------------- *)
MaxDemandes == 1
MaxValidations == 3
MaxFiles == 1
MaxOpen == 2
MaxFaults == 1
MaxOps == 1
MaxPending == 3

(* ------------------------------ types ---------------------------------- *)
UserRole == {"chauffeur", "pompiste", "superviseur", "directeur", "admin"}

StatutDemande ==
  {"en_attente", "valide_superviseur", "valide_pompiste", "valide_dg", "rejete"}

StatutValidation == {"approuve", "rejete"}

\* The accounts of the store: the five seeded ones, a second chauffeur and a
\* second superviseur.
SeedUsers ==
  [ admin        |-> "admin",
    chauffeur    |-> "chauffeur",
    superviseur  |-> "superviseur",
    directeur    |-> "directeur",
    pompiste     |-> "pompiste",
    chauffeur2   |-> "chauffeur",
    superviseur2 |-> "superviseur" ]

Users == DOMAIN SeedUsers

\* One browser session per account.
Sessions == Users

VehiculeIds == {"v1"}

TypeIds == {"t1"}

\* The ids of the rows that the Users, Vehicles and Settings pages can create.
NewUserIds == {"u8"}
NewVehiculeIds == {"v2"}
NewTypeIds == {"t2"}

\* SQL NULL in a column of ids.
NULL == "NULL"

DemandeIds == 1..MaxDemandes

NoFrame == [kind |-> "none"]

\* The browser of the visitor while it shows /login.
NoVisitor == [page |-> "login"]

\* The state of a NewFuelRequest component that is not mounted.
NoForm == [fetching |-> FALSE, vehicules |-> {}, uploadedFiles |-> <<>>]

VARIABLES
  utilisateurs,        \* table utilisateurs: id -> role
  types_vehicules,     \* table types_vehicules: the ids of its rows
  vehicules,           \* table vehicules: id -> [actif, id_type]
  demandes_carburant,  \* table demandes_carburant: sequence of rows, id = index
  validations,         \* table validations: a bag of rows (ids, dates left out)
  logs,                \* table logs: a bag of rows
  justificatifs,       \* table justificatifs: a bag of rows
  blobs,               \* storage bucket 'justificatifs': uploaded objects
  uuid,                \* how many ids uuid_generate_v4 has given to requests
  now,                 \* the clock of the store: now() of its last write to
                       \* demandes_carburant
  user,                \* useAuth().user of each session (id and role)
  visitor,             \* the browser of a visitor who is not signed in: the
                       \* page it shows (/login, /register, /setup-demo) and
                       \* the state of that page
  page,                \* the route the session shows: "requests", "new",
                       \* or "closed" while the user has not opened the app
  demandes,            \* FuelRequests state: the fetched request list
  loading,             \* the loading state of the page the session shows:
                       \* FuelRequests while fetchDemandes is in flight,
                       \* NewFuelRequest while onSubmit runs
  form,                \* NewFuelRequest state: the fetched active vehicules,
                       \* whether fetchVehicules is in flight, and the list
                       \* uploadedFiles
  pc,                  \* position of the session's running handler
  frame,               \* locals of the session's running handler
  faults,              \* how many store calls have failed (network, timeout)
  toast                \* the toast raised by the step just taken, or "none"

storeVars ==
  <<utilisateurs, types_vehicules, vehicules, demandes_carburant, validations,
    logs, justificatifs, blobs, uuid, now>>

vars ==
  <<utilisateurs, types_vehicules, vehicules, demandes_carburant, validations,
    logs, justificatifs, blobs, uuid, now, user, visitor, page, demandes,
    loading, form, pc, frame, faults, toast>>

(* ------------------------- row-level security -------------------------- *)
\* EXISTS (SELECT 1 FROM utilisateurs WHERE id = auth.uid() AND role IN roles)
HasRole(uid, roles) ==
  uid \in DOMAIN utilisateurs /\ utilisateurs[uid] \in roles

ValidatorRoles == {"superviseur", "directeur", "admin", "pompiste"}

\* DemandesSelectPolicy without its branch for the validating roles.
DemandesSelectPolicyOwner(uid, row) ==
  row.id_utilisateur = uid

\* "Users can read relevant fuel requests"
DemandesSelectPolicy(uid, row) ==
  row.id_utilisateur = uid \/ HasRole(uid, ValidatorRoles)

\* DemandesInsertPolicy without the role of the caller.
DemandesInsertPolicyOwner(uid, row) ==
  row.id_utilisateur = uid

\* "Chauffeurs can create fuel requests"
DemandesInsertPolicy(uid, row) ==
  row.id_utilisateur = uid /\ HasRole(uid, {"chauffeur"})

\* "Authorized users can update fuel requests"
DemandesUpdatePolicy(uid, row) ==
  HasRole(uid, ValidatorRoles)

\* "Authorized users can create validations"
ValidationsInsertPolicy(uid, row) ==
  row.valide_par = uid /\ HasRole(uid, ValidatorRoles)

\* "Users can upload justificatifs for their requests"
JustificatifsInsertPolicy(uid, row) ==
  \E i \in 1..Len(demandes_carburant) :
    /\ demandes_carburant[i].id = row.id_demande
    /\ demandes_carburant[i].id_utilisateur = uid

(* ----------------------------- store calls ----------------------------- *)
\* The rows of demandes_carburant the caller may read.
SelectDemandes(uid) ==
  { demandes_carburant[i] : i \in { j \in 1..Len(demandes_carburant) :
        DemandesSelectPolicy(uid, demandes_carburant[j]) } }

\* now() in the transaction of the next write to demandes_carburant.
Now == now + 1

\* update_modified_column leaving the row as the update made it.
update_modified_columnOff(row) == row

\* The trigger update_demandes_carburant_modtime: before a row is updated,
\* update_modified_column sets its date_modification to now().
update_modified_column(row) ==
  [row EXCEPT !.date_modification = Now]

\* UpdateStatut writing a quantite_servie along with the statut.
UpdateStatutServie(uid, id, newStatut) ==
  [ i \in 1..Len(demandes_carburant) |->
      IF demandes_carburant[i].id = id
           /\ DemandesUpdatePolicy(uid, demandes_carburant[i])
      THEN update_modified_column(
             [demandes_carburant[i] EXCEPT !.statut = newStatut,
                                           !.quantite_servie = "20.00"])
      ELSE demandes_carburant[i] ]

\* .from('demandes_carburant').update({ statut }).eq('id', id): the rows that
\* match and that the policy lets the caller update get the new statut, and
\* the trigger runs on each of them; a call that matches no row is not an
\* error.
UpdateStatut(uid, id, newStatut) ==
  [ i \in 1..Len(demandes_carburant) |->
      IF demandes_carburant[i].id = id
           /\ DemandesUpdatePolicy(uid, demandes_carburant[i])
      THEN update_modified_column(
             [demandes_carburant[i] EXCEPT !.statut = newStatut])
      ELSE demandes_carburant[i] ]

\* log_action(user_id, action_text, details_text): the row it inserts.  The
\* action text is kept as its parts (label, statut, niveau) and the details as
\* the request, or else the vehicule, user or type, they name.
log_action(user_id, action_text, details_text) ==
  logs (+) SetToBag({[utilisateur_id |-> user_id, action |-> action_text,
                      details |-> details_text]})

(* ------------------------ FuelRequests page ---------------------------- *)
\* fetchDemandes: the query, with the client-side filter for a chauffeur.
FetchQuery(s) ==
  IF user[s].role = "chauffeur"
  THEN { d \in SelectDemandes(user[s].id) : d.id_utilisateur = user[s].id }
  ELSE SelectDemandes(user[s].id)

\* useAuth().user while nobody is signed in: null, whose ?.role and ?.id are
\* undefined.
NoUser == [id |-> NULL, role |-> NULL]

\* canValidate(demande) for the user of the session: whether the page shows
\* the approve and reject buttons of the request.
canValidate(u, demande) ==
  IF u = NoUser THEN FALSE
  ELSE CASE u.role = "superviseur" -> demande.statut = "en_attente"
         [] u.role = "pompiste" -> demande.statut = "valide_superviseur"
         [] u.role = "directeur" -> demande.statut = "valide_pompiste"
         [] OTHER -> FALSE

\* NextStatut letting an admin decide where a superviseur does.
NextStatutAdmin(role, statutDemande, statut) ==
  IF role \in {"superviseur", "admin"} /\ statutDemande = "en_attente"
  THEN [newStatut |-> IF statut = "approuve" THEN "valide_superviseur" ELSE "rejete",
        niveauValidation |-> 1]
  ELSE IF role = "pompiste" /\ statutDemande = "valide_superviseur"
  THEN [newStatut |-> IF statut = "approuve" THEN "valide_pompiste" ELSE "rejete",
        niveauValidation |-> 2]
  ELSE IF role = "directeur" /\ statutDemande = "valide_pompiste"
  THEN [newStatut |-> IF statut = "approuve" THEN "valide_dg" ELSE "rejete",
        niveauValidation |-> 3]
  ELSE [newStatut |-> "none", niveauValidation |-> 0]

\* NextStatut with the level of the superviseur in the branch of the pompiste.
NextStatutNiveau(role, statutDemande, statut) ==
  IF role = "superviseur" /\ statutDemande = "en_attente"
  THEN [newStatut |-> IF statut = "approuve" THEN "valide_superviseur" ELSE "rejete",
        niveauValidation |-> 1]
  ELSE IF role = "pompiste" /\ statutDemande = "valide_superviseur"
  THEN [newStatut |-> IF statut = "approuve" THEN "valide_pompiste" ELSE "rejete",
        niveauValidation |-> 1]
  ELSE IF role = "directeur" /\ statutDemande = "valide_pompiste"
  THEN [newStatut |-> IF statut = "approuve" THEN "valide_dg" ELSE "rejete",
        niveauValidation |-> 3]
  ELSE [newStatut |-> "none", niveauValidation |-> 0]

\* The if / else-if chain of handleValidation: the next statut and the level,
\* or "none" for the 'Action non autorisée' branch.
NextStatut(role, statutDemande, statut) ==
  IF role = "superviseur" /\ statutDemande = "en_attente"
  THEN [newStatut |-> IF statut = "approuve" THEN "valide_superviseur" ELSE "rejete",
        niveauValidation |-> 1]
  ELSE IF role = "pompiste" /\ statutDemande = "valide_superviseur"
  THEN [newStatut |-> IF statut = "approuve" THEN "valide_pompiste" ELSE "rejete",
        niveauValidation |-> 2]
  ELSE IF role = "directeur" /\ statutDemande = "valide_pompiste"
  THEN [newStatut |-> IF statut = "approuve" THEN "valide_dg" ELSE "rejete",
        niveauValidation |-> 3]
  ELSE [newStatut |-> "none", niveauValidation |-> 0]

\* Sessions that are signed in, the running calls of handleValidation that
\* have not yet inserted their validation, and the running submits that have
\* not yet inserted their request.
OpenSessions == Cardinality({ s \in Sessions : page[s] # "closed" })
PendingValidations == Cardinality({ s \in Sessions : pc[s] \in {"update", "insert"} })
PendingSubmits == Cardinality({ s \in Sessions : pc[s] = "s_insert" })

\* The ways a store call can end: TRUE for a reply of the store, FALSE for a
\* failure of the call itself (network, timeout).
Replies == IF faults < MaxFaults THEN BOOLEAN ELSE {TRUE}

Init ==
  /\ utilisateurs = SeedUsers
  /\ types_vehicules = TypeIds
  /\ vehicules = [v \in VehiculeIds |-> [actif |-> TRUE, id_type |-> "t1"]]
  /\ demandes_carburant = <<>>
  /\ validations = EmptyBag
  /\ logs = EmptyBag
  /\ justificatifs = EmptyBag
  /\ blobs = {}
  /\ uuid = 0
  /\ now = 0
  /\ user = [s \in Sessions |-> [id |-> s, role |-> SeedUsers[s]]]
  /\ visitor = NoVisitor
  /\ page = [s \in Sessions |-> "closed"]
  /\ demandes = [s \in Sessions |-> {}]
  /\ loading = [s \in Sessions |-> FALSE]
  /\ form = [s \in Sessions |-> NoForm]
  /\ pc = [s \in Sessions |-> "idle"]
  /\ frame = [s \in Sessions |-> NoFrame]
  /\ faults = 0
  /\ toast = "none"

\* The session opens /fuel-requests (again): a fresh FuelRequests component,
\* whose effect starts fetchDemandes.
Mount(s) ==
  /\ pc[s] = "idle"
  /\ ~(page[s] = "requests" /\ loading[s])
  /\ page[s] = "closed" => OpenSessions < MaxOpen
  /\ page' = [page EXCEPT ![s] = "requests"]
  /\ demandes' = [demandes EXCEPT ![s] = {}]
  /\ loading' = [loading EXCEPT ![s] = TRUE]
  /\ form' = [form EXCEPT ![s] = NoForm]
  /\ toast' = "none"
  /\ UNCHANGED <<storeVars, user, visitor, pc, frame, faults>>

\* The session follows the 'Nouvelle demande' link, which the page shows to a
\* chauffeur: the FuelRequests component and its state are gone.
OpenNew(s) ==
  /\ pc[s] = "idle"
  /\ page[s] # "new"
  /\ page[s] = "closed" => OpenSessions < MaxOpen
  /\ user[s].role = "chauffeur"
  /\ page' = [page EXCEPT ![s] = "new"]
  /\ demandes' = [demandes EXCEPT ![s] = {}]
  /\ loading' = [loading EXCEPT ![s] = FALSE]
  /\ form' = [form EXCEPT ![s] = [NoForm EXCEPT !.fetching = TRUE]]
  /\ toast' = "none"
  /\ UNCHANGED <<storeVars, user, visitor, pc, frame, faults>>

\* handleSignOut of the layout: the session goes back to /login.
handleSignOut(s) ==
  /\ pc[s] = "idle"
  /\ page[s] # "closed"
  /\ page' = [page EXCEPT ![s] = "closed"]
  /\ demandes' = [demandes EXCEPT ![s] = {}]
  /\ loading' = [loading EXCEPT ![s] = FALSE]
  /\ form' = [form EXCEPT ![s] = NoForm]
  /\ toast' = "Déconnexion réussie"
  /\ UNCHANGED <<storeVars, user, visitor, pc, frame, faults>>

\* The reply to fetchDemandes arrives.
fetchDemandes(s) ==
  /\ page[s] = "requests"
  /\ loading[s]
  /\ \E ok \in Replies :
       IF ok
       THEN /\ demandes' = [demandes EXCEPT ![s] = FetchQuery(s)]
            /\ toast' = "none"
            /\ UNCHANGED faults
       ELSE /\ toast' = "Erreur lors du chargement des demandes"
            /\ faults' = faults + 1
            /\ UNCHANGED demandes
  /\ loading' = [loading EXCEPT ![s] = FALSE]
  /\ UNCHANGED <<storeVars, user, visitor, page, form, pc, frame>>

\* handleValidation up to its first await: the lookup in the fetched list, the
\* role/statut chain, and the update call being issued.  The buttons that call
\* it are rendered only while the page is not loading.
handleValidation(s, demandeId, statut) ==
  /\ page[s] = "requests"
  /\ ~loading[s]
  /\ pc[s] = "idle"
  /\ BagCardinality(validations) + PendingValidations < MaxValidations
  /\ LET found == { d \in demandes[s] : d.id = demandeId } IN
     IF found = {}
     THEN /\ toast' = "none"
          /\ UNCHANGED <<pc, frame>>
     ELSE LET demande == CHOOSE d \in found : TRUE
              t == NextStatut(user[s].role, demande.statut, statut)
          IN IF t.newStatut = "none"
             THEN /\ toast' = "Action non autorisée"
                  /\ UNCHANGED <<pc, frame>>
             ELSE /\ pc' = [pc EXCEPT ![s] = "update"]
                  /\ frame' = [frame EXCEPT ![s] =
                       [kind |-> "validation", demandeId |-> demandeId,
                        statut |-> statut, seen |-> demande.statut,
                        newStatut |-> t.newStatut,
                        niveauValidation |-> t.niveauValidation]]
                  /\ toast' = "none"
  /\ UNCHANGED <<storeVars, user, visitor, page, demandes, loading, form, faults>>

\* catch block of handleValidation, entered because a store call failed
\* (fault) or because the store refused it.
ValidationFailed(s, fault) ==
  /\ pc' = [pc EXCEPT ![s] = "idle"]
  /\ frame' = [frame EXCEPT ![s] = NoFrame]
  /\ toast' = "Erreur lors de la validation"
  /\ faults' = IF fault THEN faults + 1 ELSE faults
  /\ UNCHANGED <<storeVars, user, visitor, page, demandes, loading, form>>

\* The store answers the update; the handler throws on an error and otherwise
\* issues the insert into validations.
handleValidationUpdate(s) ==
  /\ pc[s] = "update"
  /\ \E ok \in Replies :
       IF ok
       THEN /\ demandes_carburant' =
                 UpdateStatut(user[s].id, frame[s].demandeId, frame[s].newStatut)
            /\ now' = IF demandes_carburant' # demandes_carburant THEN Now ELSE now
            /\ pc' = [pc EXCEPT ![s] = "insert"]
            /\ toast' = "none"
            /\ UNCHANGED <<utilisateurs, types_vehicules, vehicules, validations,
                           logs, justificatifs, blobs, uuid, user, visitor, page,
                           demandes, loading, form, frame, faults>>
       ELSE ValidationFailed(s, TRUE)

\* ValidationRow recording every decision as an approval.
ValidationRowApprouve(s) ==
  [id_demande |-> frame[s].demandeId,
   valide_par |-> user[s].id,
   niveau_validation |-> frame[s].niveauValidation,
   statut_validation |-> "approuve"]

\* The row handleValidation inserts into validations (the comment is left out).
ValidationRow(s) ==
  [id_demande |-> frame[s].demandeId,
   valide_par |-> user[s].id,
   niveau_validation |-> frame[s].niveauValidation,
   statut_validation |-> frame[s].statut]

\* The ids of the stored requests.
StoredIds == { demandes_carburant[i].id : i \in 1..Len(demandes_carburant) }

\* The store answers the insert into validations; the handler throws on an
\* error and otherwise calls log_action.
handleValidationInsert(s) ==
  /\ pc[s] = "insert"
  /\ LET row == ValidationRow(s)
     IN \E ok \in Replies :
          IF ok /\ ValidationsInsertPolicy(user[s].id, row)
                /\ row.id_demande \in StoredIds
          THEN /\ validations' = validations (+) SetToBag({row})
               /\ pc' = [pc EXCEPT ![s] = "log"]
               /\ toast' = "none"
               /\ UNCHANGED <<utilisateurs, types_vehicules, vehicules,
                              demandes_carburant, logs, justificatifs, blobs,
                              uuid, now, user, visitor, page, demandes, loading, form, frame,
                              faults>>
          ELSE ValidationFailed(s, ~ok)

\* The store answers log_action, whose result the handler does not look at;
\* then the success toast, and fetchDemandes is started.
handleValidationLog(s) ==
  /\ pc[s] = "log"
  /\ \E ok \in Replies :
       IF ok
       THEN /\ logs' = log_action(user[s].id,
                         [label |-> "Validation", statut |-> frame[s].statut,
                          niveau |-> frame[s].niveauValidation],
                         [demande |-> frame[s].demandeId, objet |-> ""])
            /\ UNCHANGED faults
       ELSE /\ faults' = faults + 1
            /\ UNCHANGED logs
  /\ toast' = IF frame[s].statut = "approuve"
              THEN "Demande approuvée avec succès"
              ELSE "Demande rejetée avec succès"
  /\ loading' = [loading EXCEPT ![s] = TRUE]
  /\ pc' = [pc EXCEPT ![s] = "idle"]
  /\ frame' = [frame EXCEPT ![s] = NoFrame]
  /\ UNCHANGED <<utilisateurs, types_vehicules, vehicules, demandes_carburant,
                 validations, justificatifs, blobs, uuid, now, user, visitor, page, demandes,
                 form>>

(* ------------------------ NewFuelRequest page -------------------------- *)
\* The session enters /fuel-requests/new by its address: the component asks
\* for no role.
OpenNewFuelRequest(s) ==
  /\ pc[s] = "idle"
  /\ page[s] # "new"
  /\ page[s] = "closed" => OpenSessions < MaxOpen
  /\ page' = [page EXCEPT ![s] = "new"]
  /\ demandes' = [demandes EXCEPT ![s] = {}]
  /\ loading' = [loading EXCEPT ![s] = FALSE]
  /\ form' = [form EXCEPT ![s] = [NoForm EXCEPT !.fetching = TRUE]]
  /\ toast' = "none"
  /\ UNCHANGED <<storeVars, user, visitor, pc, frame, faults>>

\* The reply to fetchVehicules arrives: the vehicules that are actif.
fetchVehicules(s) ==
  /\ page[s] = "new"
  /\ form[s].fetching
  /\ \E ok \in Replies :
       IF ok
       THEN /\ form' = [form EXCEPT
                 ![s].fetching = FALSE,
                 ![s].vehicules = { v \in DOMAIN vehicules : vehicules[v].actif }]
            /\ toast' = "none"
            /\ UNCHANGED faults
       ELSE /\ form' = [form EXCEPT ![s].fetching = FALSE]
            /\ toast' = "Erreur lors du chargement des véhicules"
            /\ faults' = faults + 1
  /\ UNCHANGED <<storeVars, user, visitor, page, demandes, loading, pc, frame>>

\* SubmitFailed without the finally block.
SubmitFailedCatch(s, fault) ==
  /\ pc' = [pc EXCEPT ![s] = "idle"]
  /\ frame' = [frame EXCEPT ![s] = NoFrame]
  /\ toast' = "Erreur lors de la création de la demande"
  /\ faults' = IF fault THEN faults + 1 ELSE faults
  /\ UNCHANGED <<user, visitor, page, demandes, loading, form>>

\* catch and finally blocks of onSubmit, entered because a store call failed
\* (fault) or because the store refused it.
SubmitFailed(s, fault) ==
  /\ pc' = [pc EXCEPT ![s] = "idle"]
  /\ frame' = [frame EXCEPT ![s] = NoFrame]
  /\ toast' = "Erreur lors de la création de la demande"
  /\ loading' = [loading EXCEPT ![s] = FALSE]
  /\ faults' = IF fault THEN faults + 1 ELSE faults
  /\ UNCHANGED <<user, visitor, page, demandes, form>>

\* The largest size of an attachment, 5 * 1024 * 1024 bytes.
MaxFileSize == 5242880

\* The files a user can pick: of a supported type or not, small enough or not.
FileTypes == {"image/jpeg", "image/png", "application/pdf", "text/plain"}
Files == [type : FileTypes, size : {MaxFileSize, MaxFileSize + 1}]

\* ValidFile without the test of the size.
ValidFileAnySize(file) ==
  file.type \in {"image/jpeg", "image/png", "application/pdf"}

\* The filter of handleFileUpload: isValidType and isValidSize.
ValidFile(file) ==
  /\ file.type \in {"image/jpeg", "image/png", "application/pdf"}
  /\ file.size <= MaxFileSize

\* handleFileUpload: the valid ones of the picked files are appended to
\* uploadedFiles; every other file raises a toast (of which the last one is
\* kept here, without the name of the file).
handleFileUpload(s, files) ==
  /\ page[s] = "new"
  /\ pc[s] = "idle"
  /\ LET Rejected(file) == ~ValidFile(file)
         validFiles == SelectSeq(files, ValidFile)
         rejected == SelectSeq(files, Rejected)
     IN /\ form' = [form EXCEPT ![s].uploadedFiles = @ \o validFiles]
        /\ toast' = IF rejected = <<>> THEN "none"
                    ELSE IF rejected[Len(rejected)].type
                              \notin {"image/jpeg", "image/png", "application/pdf"}
                    THEN "Type de fichier non supporté"
                    ELSE "Fichier trop volumineux (max 5MB)"
  /\ UNCHANGED <<storeVars, user, visitor, page, demandes, loading, pc, frame,
                 faults>>

\* removeFile(index) for the button of the file at position index, counted
\* from 0: prev.filter((_, i) => i !== index).
removeFile(s, index) ==
  /\ page[s] = "new"
  /\ pc[s] = "idle"
  /\ index \in 0..(Len(form[s].uploadedFiles) - 1)
  /\ form' = [form EXCEPT ![s].uploadedFiles =
                SubSeq(@, 1, index) \o SubSeq(@, index + 2, Len(@))]
  /\ toast' = "none"
  /\ UNCHANGED <<storeVars, user, visitor, page, demandes, loading, pc, frame,
                 faults>>

\* onSubmit up to its first await: the insert of the request is issued for a
\* vehicule chosen among the fetched ones.  nFiles is the length of
\* uploadedFiles when the form is submitted.
onSubmit(s, id_vehicule, nFiles) ==
  /\ page[s] = "new"
  /\ pc[s] = "idle"
  /\ id_vehicule \in form[s].vehicules
  /\ nFiles = Len(form[s].uploadedFiles)
  /\ uuid + PendingSubmits < MaxDemandes
  /\ loading' = [loading EXCEPT ![s] = TRUE]
  /\ pc' = [pc EXCEPT ![s] = "s_insert"]
  /\ frame' = [frame EXCEPT ![s] =
       [kind |-> "submit", id_vehicule |-> id_vehicule, nFiles |-> nFiles,
        demandeId |-> 0]]
  /\ toast' = "none"
  /\ UNCHANGED <<storeVars, user, visitor, page, demandes, form, faults>>

\* NewDemande with the statut of a request that the superviseur has passed.
NewDemandeValide(s) ==
  [id |-> uuid + 1,
   id_utilisateur |-> user[s].id,
   id_vehicule |-> frame[s].id_vehicule,
   statut |-> "valide_superviseur",
   quantite_servie |-> NULL,
   date_demande |-> Now,
   date_modification |-> Now]

\* The row onSubmit inserts: the form data (which has no quantite_servie),
\* the user's id and the statut 'en_attente'; the id is a fresh uuid, and
\* date_demande and date_modification get their default, now().
NewDemande(s) ==
  [id |-> uuid + 1,
   id_utilisateur |-> user[s].id,
   id_vehicule |-> frame[s].id_vehicule,
   statut |-> "en_attente",
   quantite_servie |-> NULL,
   date_demande |-> Now,
   date_modification |-> Now]

\* The store answers the insert of the request.
onSubmitInsert(s) ==
  /\ pc[s] = "s_insert"
  /\ LET row == NewDemande(s)
     IN \E ok \in Replies :
          IF ok /\ DemandesInsertPolicy(user[s].id, row)
                /\ row.id_utilisateur \in DOMAIN utilisateurs
                /\ row.id_vehicule \in DOMAIN vehicules
          THEN /\ demandes_carburant' = Append(demandes_carburant, row)
               /\ uuid' = uuid + 1
               /\ now' = Now
               /\ pc' = [pc EXCEPT ![s] =
                          IF frame[s].nFiles > 0 THEN "s_upload" ELSE "s_log"]
               /\ frame' = [frame EXCEPT ![s].demandeId = row.id]
               /\ toast' = "none"
               /\ UNCHANGED <<utilisateurs, types_vehicules, vehicules,
                              validations, logs, justificatifs, blobs, user, visitor,
                              page, demandes, loading, form, faults>>
          ELSE /\ SubmitFailed(s, ~ok)
               /\ UNCHANGED storeVars

\* uploadFiles, the storage part: the uploads run side by side, so some may be
\* stored although another one fails and makes uploadFiles throw.
uploadFiles(s) ==
  /\ pc[s] = "s_upload"
  /\ \E stored \in SUBSET (1..frame[s].nFiles) :
       /\ stored # 1..frame[s].nFiles => faults < MaxFaults
       /\ blobs' = blobs \cup { [id_demande |-> frame[s].demandeId, file |-> k] :
                                k \in stored }
       /\ IF stored = 1..frame[s].nFiles
          THEN /\ pc' = [pc EXCEPT ![s] = "s_justificatifs"]
               /\ toast' = "none"
               /\ UNCHANGED <<user, visitor, page, demandes, loading, form, frame, faults>>
          ELSE SubmitFailed(s, TRUE)
  /\ UNCHANGED <<utilisateurs, types_vehicules, vehicules, demandes_carburant,
                 validations, logs, justificatifs, uuid, now>>

\* uploadFiles, the insert into justificatifs of one row per file.
uploadFilesInsert(s) ==
  /\ pc[s] = "s_justificatifs"
  /\ LET rows == { [id_demande |-> frame[s].demandeId, file |-> k] :
                     k \in 1..frame[s].nFiles }
     IN \E ok \in Replies :
          IF ok /\ \A row \in rows : JustificatifsInsertPolicy(user[s].id, row)
          THEN /\ justificatifs' = justificatifs (+) SetToBag(rows)
               /\ pc' = [pc EXCEPT ![s] = "s_log"]
               /\ toast' = "none"
               /\ UNCHANGED <<utilisateurs, types_vehicules, vehicules,
                              demandes_carburant, validations, logs, blobs,
                              uuid, now, user, visitor, page, demandes, loading, form,
                              frame, faults>>
          ELSE /\ SubmitFailed(s, ~ok)
               /\ UNCHANGED storeVars

\* The store answers log_action, whose result the handler does not look at;
\* then the success toast and the navigation to /fuel-requests, where a fresh
\* FuelRequests component starts fetchDemandes.
onSubmitLog(s) ==
  /\ pc[s] = "s_log"
  /\ \E ok \in Replies :
       IF ok
       THEN /\ logs' = log_action(user[s].id,
                         [label |-> "Création demande carburant", statut |-> "",
                          niveau |-> 0],
                         [demande |-> 0, objet |-> frame[s].id_vehicule])
            /\ UNCHANGED faults
       ELSE /\ faults' = faults + 1
            /\ UNCHANGED logs
  /\ toast' = "Demande créée avec succès"
  /\ page' = [page EXCEPT ![s] = "requests"]
  /\ demandes' = [demandes EXCEPT ![s] = {}]
  /\ loading' = [loading EXCEPT ![s] = TRUE]
  /\ form' = [form EXCEPT ![s] = NoForm]
  /\ pc' = [pc EXCEPT ![s] = "idle"]
  /\ frame' = [frame EXCEPT ![s] = NoFrame]
  /\ UNCHANGED <<utilisateurs, types_vehicules, vehicules, demandes_carburant,
                 validations, justificatifs, blobs, uuid, now, user, visitor>>

(* ------------------------------ Users page ----------------------------- *)
\* "Admins can manage all users", "Admins can manage vehicles"
ManagePolicy(uid) == HasRole(uid, {"admin", "directeur"})

\* "Only admins can manage vehicle types"
TypesManagePolicy(uid) == HasRole(uid, {"admin"})

\* The policies for an insert into utilisateurs by an authenticated caller:
\* "Users can create their own profile" or "Admins can manage all users".
UtilisateursInsertPolicy(uid, id) ==
  uid # NULL /\ (id = uid \/ ManagePolicy(uid))

\* The policies for an update of utilisateurs: "Users can update own profile"
\* or "Admins can manage all users".
UtilisateursUpdatePolicy(uid, id) ==
  uid # NULL /\ (id = uid \/ ManagePolicy(uid))

\* Bag B without the rows that refer to a request in gone.
FilterBag(B, gone) ==
  [ r \in { x \in BagToSet(B) : x.id_demande \notin gone } |-> B[r] ]

\* DELETE FROM utilisateurs WHERE id = u, with the actions of the foreign keys:
\* the requests of u go (ON DELETE CASCADE) and with them their justificatifs
\* and validations (ON DELETE CASCADE); validations.valide_par and
\* logs.utilisateur_id that name u become NULL (ON DELETE SET NULL).
DeleteUtilisateur(u) ==
  LET gone == { id \in StoredIds :
                  \E i \in 1..Len(demandes_carburant) :
                     /\ demandes_carburant[i].id = id
                     /\ demandes_carburant[i].id_utilisateur = u }
      KeepDemande(d) == d.id_utilisateur # u
      Unname(r) == IF r.valide_par = u THEN [r EXCEPT !.valide_par = NULL] ELSE r
      UnnameLog(l) ==
        IF l.utilisateur_id = u THEN [l EXCEPT !.utilisateur_id = NULL] ELSE l
  IN /\ utilisateurs' = [ x \in DOMAIN utilisateurs \ {u} |-> utilisateurs[x] ]
     /\ demandes_carburant' = SelectSeq(demandes_carburant, KeepDemande)
     /\ justificatifs' = FilterBag(justificatifs, gone)
     /\ validations' = BagOfAll(Unname, FilterBag(validations, gone))
     /\ logs' = BagOfAll(UnnameLog, logs)

\* The session opens /users, /vehicles or /settings.  The Users page shows
\* its table to an admin or directeur, the Settings page to an admin, and the
\* Vehicles page its buttons to an admin or directeur.
OpenAdminPage(s, p) ==
  /\ pc[s] = "idle"
  /\ page[s] # p
  /\ page[s] = "closed" => OpenSessions < MaxOpen
  /\ user[s].role \in (IF p = "settings" THEN {"admin"} ELSE {"admin", "directeur"})
  /\ page' = [page EXCEPT ![s] = p]
  /\ demandes' = [demandes EXCEPT ![s] = {}]
  /\ loading' = [loading EXCEPT ![s] = FALSE]
  /\ form' = [form EXCEPT ![s] = NoForm]
  /\ toast' = "none"
  /\ UNCHANGED <<storeVars, user, visitor, pc, frame, faults>>

\* The calls of the handlers of the three pages that are running or logged.
AdminOps ==
  LET admin == { l \in BagToSet(logs) :
                   l.action.label \notin {"Validation", "Création demande carburant"} }
  IN BagCardinality([ l \in admin |-> logs[l] ])
       + Cardinality({ s \in Sessions : frame[s].kind = "admin" })

\* A handler of the three pages issues its store call.
AdminCall(s, p, step, target, value) ==
  /\ page[s] = p
  /\ pc[s] = "idle"
  /\ AdminOps < MaxOps
  /\ pc' = [pc EXCEPT ![s] = step]
  /\ frame' = [frame EXCEPT ![s] =
       [kind |-> "admin", target |-> target, value |-> value]]
  /\ toast' = "none"
  /\ UNCHANGED <<storeVars, user, visitor, page, demandes, loading, form, faults>>

\* catch block of a handler of the three pages (error.message is left out).
AdminFailed(s, fault, message) ==
  /\ pc' = [pc EXCEPT ![s] = "idle"]
  /\ frame' = [frame EXCEPT ![s] = NoFrame]
  /\ toast' = message
  /\ faults' = IF fault THEN faults + 1 ELSE faults
  /\ UNCHANGED <<storeVars, user, visitor, page, demandes, loading, form>>

\* The store has answered; the handler calls log_action next.
AdminStored(s, step, message) ==
  /\ pc' = [pc EXCEPT ![s] = step]
  /\ toast' = message
  /\ UNCHANGED <<user, visitor, page, demandes, loading, form, frame, faults>>

\* The store answers log_action, whose result the handler does not look at.
AdminLog(s, step, label, message) ==
  /\ pc[s] = step
  /\ \E ok \in Replies :
       IF ok
       THEN /\ logs' = log_action(user[s].id,
                         [label |-> label, statut |-> "", niveau |-> 0],
                         [demande |-> 0, objet |-> frame[s].target])
            /\ UNCHANGED faults
       ELSE /\ faults' = faults + 1
            /\ UNCHANGED logs
  /\ toast' = message
  /\ pc' = [pc EXCEPT ![s] = "idle"]
  /\ frame' = [frame EXCEPT ![s] = NoFrame]
  /\ UNCHANGED <<utilisateurs, types_vehicules, vehicules, demandes_carburant,
                 validations, justificatifs, blobs, uuid, now, user, visitor, page, demandes,
                 loading, form>>

\* Users.handleSubmit with editingUser: the role of the form is written.
UsersHandleEdit(s, target, role) ==
  /\ target \in DOMAIN utilisateurs
  /\ AdminCall(s, "users", "u_update", target, role)

\* Users.handleSubmit without editingUser: a user is created.
UsersHandleCreate(s, target, role) ==
  /\ target \notin DOMAIN utilisateurs
  /\ AdminCall(s, "users", "u_insert", target, role)

\* The store answers the update or the insert of Users.handleSubmit: an update
\* changes the row if the policies let the caller update it, and is no error
\* otherwise; an insert, whose row gets a fresh id, is an error unless the
\* caller may manage all users.
UsersHandleSubmitStore(s) ==
  /\ pc[s] \in {"u_update", "u_insert"}
  /\ \E ok \in Replies :
       IF ok /\ (pc[s] = "u_insert" =>
                   ManagePolicy(user[s].id) /\ frame[s].target \notin DOMAIN utilisateurs)
       THEN /\ utilisateurs' =
                 IF pc[s] = "u_insert"
                 THEN [ x \in DOMAIN utilisateurs \cup {frame[s].target} |->
                          IF x = frame[s].target THEN frame[s].value
                          ELSE utilisateurs[x] ]
                 ELSE [ x \in DOMAIN utilisateurs |->
                          IF x = frame[s].target
                               /\ UtilisateursUpdatePolicy(user[s].id, x)
                          THEN frame[s].value ELSE utilisateurs[x] ]
            /\ AdminStored(s, IF pc[s] = "u_insert" THEN "u_insert_log"
                              ELSE "u_update_log",
                           IF pc[s] = "u_insert" THEN "Utilisateur créé avec succès"
                           ELSE "Utilisateur modifié avec succès")
            /\ UNCHANGED <<types_vehicules, vehicules, demandes_carburant,
                           validations, logs, justificatifs, blobs, uuid, now>>
       ELSE AdminFailed(s, ~ok, "Erreur lors de la sauvegarde")

UsersHandleSubmitLog(s) ==
  \/ AdminLog(s, "u_update_log", "Modification utilisateur", "none")
  \/ AdminLog(s, "u_insert_log", "Création utilisateur", "none")

\* Users.handleDelete: the button is not shown on the row of the current user.
UsersHandleDelete(s, target) ==
  /\ target \in DOMAIN utilisateurs
  /\ target # user[s].id
  /\ AdminCall(s, "users", "u_delete", target, "")

\* The store answers the delete: the row goes if the policy lets the caller
\* see it; a delete of no row is no error.
UsersHandleDeleteStore(s) ==
  /\ pc[s] = "u_delete"
  /\ \E ok \in Replies :
       IF ok
       THEN /\ IF ManagePolicy(user[s].id) /\ frame[s].target \in DOMAIN utilisateurs
               THEN DeleteUtilisateur(frame[s].target)
               ELSE UNCHANGED <<utilisateurs, demandes_carburant, justificatifs,
                                validations, logs>>
            /\ AdminStored(s, "u_delete_log", "none")
            /\ UNCHANGED <<types_vehicules, vehicules, blobs, uuid, now>>
       ELSE AdminFailed(s, TRUE, "Erreur lors de la suppression")

UsersHandleDeleteLog(s) ==
  AdminLog(s, "u_delete_log", "Suppression utilisateur",
           "Utilisateur supprimé avec succès")

(* ----------------------------- Vehicles page --------------------------- *)
\* Vehicles.handleSubmit with editingVehicule: the actif flag of the form is
\* written.
VehiclesHandleEdit(s, target, actif) ==
  /\ target \in DOMAIN vehicules
  /\ AdminCall(s, "vehicles", "v_update", target, actif)

\* Vehicles.handleSubmit without editingVehicule: a vehicule of the chosen
\* type is created.
VehiclesHandleCreate(s, target, id_type) ==
  /\ target \notin DOMAIN vehicules
  /\ id_type \in types_vehicules
  /\ AdminCall(s, "vehicles", "v_insert", target, id_type)

\* The store answers the update or the insert of Vehicles.handleSubmit.
VehiclesHandleSubmitStore(s) ==
  /\ pc[s] \in {"v_update", "v_insert"}
  /\ \E ok \in Replies :
       IF ok /\ (pc[s] = "v_insert" =>
                   /\ ManagePolicy(user[s].id)
                   /\ frame[s].target \notin DOMAIN vehicules
                   /\ frame[s].value \in types_vehicules)
       THEN /\ vehicules' =
                 IF pc[s] = "v_insert"
                 THEN [ x \in DOMAIN vehicules \cup {frame[s].target} |->
                          IF x = frame[s].target
                          THEN [actif |-> TRUE, id_type |-> frame[s].value]
                          ELSE vehicules[x] ]
                 ELSE [ x \in DOMAIN vehicules |->
                          IF x = frame[s].target /\ ManagePolicy(user[s].id)
                          THEN [vehicules[x] EXCEPT !.actif = frame[s].value]
                          ELSE vehicules[x] ]
            /\ AdminStored(s, IF pc[s] = "v_insert" THEN "v_insert_log"
                              ELSE "v_update_log",
                           IF pc[s] = "v_insert" THEN "Véhicule créé avec succès"
                           ELSE "Véhicule modifié avec succès")
            /\ UNCHANGED <<utilisateurs, types_vehicules, demandes_carburant,
                           validations, logs, justificatifs, blobs, uuid, now>>
       ELSE AdminFailed(s, ~ok, "Erreur lors de la sauvegarde")

VehiclesHandleSubmitLog(s) ==
  \/ AdminLog(s, "v_update_log", "Modification véhicule", "none")
  \/ AdminLog(s, "v_insert_log", "Création véhicule", "none")

\* Vehicles.handleDelete
VehiclesHandleDelete(s, target) ==
  /\ target \in DOMAIN vehicules
  /\ AdminCall(s, "vehicles", "v_delete", target, "")

\* The store answers the delete: a vehicule that a request refers to stays
\* (ON DELETE RESTRICT), which is an error.
VehiclesHandleDeleteStore(s) ==
  /\ pc[s] = "v_delete"
  /\ LET matches == ManagePolicy(user[s].id) /\ frame[s].target \in DOMAIN vehicules
         restricted == \E i \in 1..Len(demandes_carburant) :
                          demandes_carburant[i].id_vehicule = frame[s].target
     IN \E ok \in Replies :
          IF ok /\ ~(matches /\ restricted)
          THEN /\ vehicules' =
                    IF matches
                    THEN [ x \in DOMAIN vehicules \ {frame[s].target} |-> vehicules[x] ]
                    ELSE vehicules
               /\ AdminStored(s, "v_delete_log", "none")
               /\ UNCHANGED <<utilisateurs, types_vehicules, demandes_carburant,
                              validations, logs, justificatifs, blobs, uuid, now>>
          ELSE AdminFailed(s, ~ok, "Erreur lors de la suppression")

VehiclesHandleDeleteLog(s) ==
  AdminLog(s, "v_delete_log", "Suppression véhicule",
           "Véhicule supprimé avec succès")

(* ----------------------------- Settings page --------------------------- *)
\* Settings.handleSubmit with editingType: libelle and seuil are written,
\* which are not part of this model.
SettingsHandleEdit(s, target) ==
  /\ target \in types_vehicules
  /\ AdminCall(s, "settings", "t_update", target, "")

\* Settings.handleSubmit without editingType: a type is created.
SettingsHandleCreate(s, target) ==
  /\ target \notin types_vehicules
  /\ AdminCall(s, "settings", "t_insert", target, "")

\* The store answers the update or the insert of Settings.handleSubmit.
SettingsHandleSubmitStore(s) ==
  /\ pc[s] \in {"t_update", "t_insert"}
  /\ \E ok \in Replies :
       IF ok /\ (pc[s] = "t_insert" => TypesManagePolicy(user[s].id))
       THEN /\ types_vehicules' =
                 IF pc[s] = "t_insert"
                 THEN types_vehicules \cup {frame[s].target}
                 ELSE types_vehicules
            /\ AdminStored(s, IF pc[s] = "t_insert" THEN "t_insert_log"
                              ELSE "t_update_log",
                           IF pc[s] = "t_insert"
                           THEN "Type de véhicule créé avec succès"
                           ELSE "Type de véhicule modifié avec succès")
            /\ UNCHANGED <<utilisateurs, vehicules, demandes_carburant,
                           validations, logs, justificatifs, blobs, uuid, now>>
       ELSE AdminFailed(s, ~ok, "Erreur lors de la sauvegarde")

SettingsHandleSubmitLog(s) ==
  \/ AdminLog(s, "t_update_log", "Modification type véhicule", "none")
  \/ AdminLog(s, "t_insert_log", "Création type véhicule", "none")

\* Settings.handleDelete
SettingsHandleDelete(s, target) ==
  /\ target \in types_vehicules
  /\ AdminCall(s, "settings", "t_delete", target, "")

\* The store answers the delete: a type that a vehicule refers to stays
\* (ON DELETE RESTRICT), which is an error.
SettingsHandleDeleteStore(s) ==
  /\ pc[s] = "t_delete"
  /\ LET matches == TypesManagePolicy(user[s].id) /\ frame[s].target \in types_vehicules
         restricted == \E v \in DOMAIN vehicules :
                          vehicules[v].id_type = frame[s].target
     IN \E ok \in Replies :
          IF ok /\ ~(matches /\ restricted)
          THEN /\ types_vehicules' =
                    IF matches THEN types_vehicules \ {frame[s].target}
                    ELSE types_vehicules
               /\ AdminStored(s, "t_delete_log", "none")
               /\ UNCHANGED <<utilisateurs, vehicules, demandes_carburant,
                              validations, logs, justificatifs, blobs, uuid, now>>
          ELSE AdminFailed(s, ~ok, "Erreur lors de la suppression")

SettingsHandleDeleteLog(s) ==
  AdminLog(s, "t_delete_log", "Suppression type véhicule",
           "Type de véhicule supprimé avec succès")

(* ------------------------------ Register page -------------------------- *)
\* The variables of the signed-in sessions, which the visitor leaves alone.
sessionVars == <<user, page, demandes, loading, form, pc, frame>>

\* The visitor follows the link to /register: a fresh Register component.
OpenRegister ==
  /\ visitor.page = "login"
  /\ visitor' = [page |-> "register", loading |-> FALSE,
                  rateLimitError |-> FALSE, registrationSuccess |-> FALSE,
                  pc |-> "idle"]
  /\ toast' = "none"
  /\ UNCHANGED <<storeVars, sessionVars, faults>>

\* The visitor goes (back) to /login from /register or /setup-demo, whose
\* buttons are disabled while the page is loading.
OpenLogin ==
  /\ visitor.page \in {"register", "setup"}
  /\ ~visitor.loading
  /\ visitor' = NoVisitor
  /\ toast' = "none"
  /\ UNCHANGED <<storeVars, sessionVars, faults>>

\* Register.onSubmit up to its first await: the passwords are compared and
\* auth.signUp is called.  The form asks for the role of the new account.
RegisterOnSubmit(id, role, confirmed) ==
  /\ visitor.page = "register"
  /\ visitor.pc = "idle"
  /\ ~visitor.loading /\ ~visitor.rateLimitError /\ ~visitor.registrationSuccess
  /\ IF ~confirmed
     THEN /\ toast' = "Les mots de passe ne correspondent pas"
          /\ UNCHANGED visitor
     ELSE /\ visitor' = [page |-> "register", loading |-> TRUE,
                          rateLimitError |-> FALSE, registrationSuccess |-> FALSE,
                          pc |-> "signUp", id |-> id, role |-> role]
          /\ toast' = "none"
  /\ UNCHANGED <<storeVars, sessionVars, faults>>

\* The answers of auth.signUp: a user with a session (the project does not
\* ask for a confirmation of the address), a user without one, no user, or one
\* of the errors the callers tell apart.
SignUpReplies ==
  {"session", "user", "no user", "already registered", "rate limit", "error"}

\* auth.signUp answers Register.onSubmit; with a user the insert of the
\* profile is issued, as the new user if the answer carries his session.
RegisterSignUp(reply) ==
  /\ visitor.page = "register"
  /\ visitor.pc = "signUp"
  /\ visitor' =
       CASE reply \in {"session", "user"} ->
              [visitor EXCEPT !.pc = "insert"]
                @@ [uid |-> IF reply = "session" THEN visitor.id ELSE NULL]
         [] reply = "rate limit" ->
              [visitor EXCEPT !.pc = "idle", !.loading = FALSE,
                              !.rateLimitError = TRUE]
         [] OTHER ->
              [visitor EXCEPT !.pc = "idle", !.loading = FALSE]
  /\ toast' =
       CASE reply \in {"session", "user", "no user"} -> "none"
         [] reply = "rate limit" -> "Limite de taux d'email atteinte"
         [] OTHER -> "Erreur lors de la création du compte"
  /\ UNCHANGED <<storeVars, sessionVars, faults>>

\* The store answers the insert of the profile.
RegisterInsert ==
  /\ visitor.page = "register"
  /\ visitor.pc = "insert"
  /\ \E ok \in Replies :
       IF ok /\ UtilisateursInsertPolicy(visitor.uid, visitor.id)
             /\ visitor.id \notin DOMAIN utilisateurs
       THEN /\ utilisateurs' =
                 [ x \in DOMAIN utilisateurs \cup {visitor.id} |->
                     IF x = visitor.id THEN visitor.role ELSE utilisateurs[x] ]
            /\ visitor' = [page |-> "register", loading |-> FALSE,
                            rateLimitError |-> FALSE, registrationSuccess |-> TRUE,
                            pc |-> "idle"]
            /\ toast' = "Compte créé avec succès"
            /\ UNCHANGED faults
       ELSE /\ visitor' = [page |-> "register", loading |-> FALSE,
                            rateLimitError |-> FALSE, registrationSuccess |-> FALSE,
                            pc |-> "idle"]
            /\ toast' = "Erreur lors de la création du compte"
            /\ faults' = IF ok THEN faults ELSE faults + 1
            /\ UNCHANGED utilisateurs
  /\ UNCHANGED <<types_vehicules, vehicules, demandes_carburant, validations,
                 logs, justificatifs, blobs, uuid, now, sessionVars>>

(* ------------------------------ SetupDemo page ------------------------- *)
\* The demo accounts, in the order of the list.  An account is named by the
\* part of its address before @alh.com, which is also the key of its row in
\* utilisateurs (id and email are both unique; the model has one key).
demoUsers ==
  << [email |-> "admin",       role |-> "admin"],
     [email |-> "chauffeur",   role |-> "chauffeur"],
     [email |-> "superviseur", role |-> "superviseur"],
     [email |-> "directeur",   role |-> "directeur"],
     [email |-> "pompiste",    role |-> "pompiste"] >>

\* The visitor follows the link to /setup-demo: a fresh SetupDemo component.
OpenSetupDemo ==
  /\ visitor.page \in {"login", "register"}
  /\ visitor.page = "register" => ~visitor.loading
  /\ visitor' = [page |-> "setup", loading |-> FALSE, createdUsers |-> <<>>,
                  errors |-> <<>>, currentUserIndex |-> 0,
                  rateLimitHit |-> FALSE, pc |-> "idle", i |-> 0, uid |-> NULL,
                  closure |-> 0]
  /\ toast' = "none"
  /\ UNCHANGED <<storeVars, sessionVars, faults>>

\* createDemoUsers up to its first await: the state is reset and the sign-up
\* of demoUsers[0] is issued.  The function keeps the createdUsers of the
\* render it was created in (closure), which its last lines read.
createDemoUsers ==
  /\ visitor.page = "setup"
  /\ ~visitor.loading
  /\ visitor' = [visitor EXCEPT !.loading = TRUE, !.createdUsers = <<>>,
                                 !.errors = <<>>, !.currentUserIndex = 0,
                                 !.rateLimitHit = FALSE, !.pc = "signUp",
                                 !.i = 0, !.uid = NULL,
                                 !.closure = Len(visitor.createdUsers)]
  /\ toast' = "none"
  /\ UNCHANGED <<storeVars, sessionVars, faults>>

\* The lines after the loop.
Finish(v) ==
  [v EXCEPT !.pc = "idle", !.loading = FALSE, !.currentUserIndex = 0,
            !.uid = NULL]

\* A BreakLoop that goes on with the next account.
BreakContinue(v) ==
  IF v.i + 1 < Len(demoUsers)
  THEN [v EXCEPT !.pc = "signUp", !.i = v.i + 1, !.currentUserIndex = v.i + 1,
                 !.uid = NULL]
  ELSE Finish(v)

\* `break`: the loop is left.
BreakLoop(v) == Finish(v)

\* i++ and the head of the loop: the sign-up of the next account is issued,
\* or the loop ends.  `continue` comes here directly.
Continue(v) ==
  IF v.i + 1 < Len(demoUsers)
  THEN [v EXCEPT !.pc = "signUp", !.i = v.i + 1, !.currentUserIndex = v.i + 1,
                 !.uid = NULL]
  ELSE Finish(v)

\* The end of the loop body: the delay of 6 s unless the account is the last.
Delay(v) ==
  IF v.i < Len(demoUsers) - 1 THEN [v EXCEPT !.pc = "wait"] ELSE Continue(v)

\* The toast a step of createDemoUsers leaves: the one of the lines after the
\* loop, if the step runs them and they raise one, and else its own.
DemoToast(v, own) ==
  IF v.pc = "idle" /\ v.closure > 0 THEN "utilisateurs créés avec succès" ELSE own

\* errors with one more entry.
AddError(v, message) ==
  [v EXCEPT !.errors = Append(@, [email |-> demoUsers[v.i + 1].email,
                                  message |-> message])]

\* auth.signUp answers createDemoUsers.
createDemoUsersSignUp(reply) ==
  /\ visitor.page = "setup"
  /\ visitor.pc = "signUp"
  /\ LET v == CASE reply = "already registered" ->
                    Continue(AddError(visitor, "Utilisateur déjà existant"))
               [] reply = "rate limit" ->
                    BreakLoop([AddError(visitor, "Limite de taux d'email atteinte")
                                 EXCEPT !.rateLimitHit = TRUE])
               [] reply = "error" ->
                    Delay(AddError(visitor, "error.message"))
               [] reply = "no user" -> Delay(visitor)
               [] OTHER ->
                    [visitor EXCEPT !.pc = "upsert",
                       !.uid = IF reply = "session"
                               THEN demoUsers[visitor.i + 1].email ELSE NULL]
     IN /\ visitor' = v
        /\ toast' = DemoToast(v, IF reply = "rate limit"
                                 THEN "Limite de taux atteinte. Processus arrêté."
                                 ELSE "none")
  /\ UNCHANGED <<storeVars, sessionVars, faults>>

\* The store answers the upsert of the profile (ON CONFLICT (email) DO
\* UPDATE): a new row must pass the insert policies; a row of that address
\* is updated if it is the caller's own (same), and the upsert is refused if
\* it is the row of another id.
createDemoUsersUpsert(reply, same) ==
  /\ visitor.page = "setup"
  /\ visitor.pc = "upsert"
  /\ LET user_ == demoUsers[visitor.i + 1]
         stored == /\ reply = "ok"
                   /\ UtilisateursInsertPolicy(visitor.uid, user_.email)
                   /\ user_.email \in DOMAIN utilisateurs =>
                        same /\ UtilisateursUpdatePolicy(visitor.uid, user_.email)
         v == CASE stored ->
                     Delay([visitor EXCEPT !.createdUsers = Append(@, user_.email)])
                [] reply = "rate limit" ->
                     BreakLoop([AddError(visitor, "rate limit")
                                  EXCEPT !.rateLimitHit = TRUE])
                [] OTHER -> Delay(AddError(visitor, "error.message"))
     IN /\ utilisateurs' =
             IF stored
             THEN [ x \in DOMAIN utilisateurs \cup {user_.email} |->
                      IF x = user_.email THEN user_.role ELSE utilisateurs[x] ]
             ELSE utilisateurs
        /\ visitor' = v
        /\ toast' = DemoToast(v, CASE stored -> "Utilisateur créé"
                                   [] reply = "rate limit" ->
                                        "Limite de taux atteinte. Processus arrêté."
                                   [] OTHER -> "none")
  /\ UNCHANGED <<types_vehicules, vehicules, demandes_carburant, validations,
                 logs, justificatifs, blobs, uuid, now, sessionVars, faults>>

\* The timer of the delay fires.
createDemoUsersWait ==
  /\ visitor.page = "setup"
  /\ visitor.pc = "wait"
  /\ visitor' = Continue(visitor)
  /\ toast' = DemoToast(visitor', "none")
  /\ UNCHANGED <<storeVars, sessionVars, faults>>

\* The user picks one more file, a PDF, while the form has fewer than
\* MaxFiles.
PickFile(s) ==
  /\ Len(form[s].uploadedFiles) < MaxFiles
  /\ handleFileUpload(s, <<[type |-> "application/pdf", size |-> MaxFileSize]>>)

\* The approval workflow: the FuelRequests page of every session, and the
\* NewFuelRequest page submitting requests that carry no attachment.
Next ==
  \/ \E s \in Sessions : Mount(s)
  \/ \E s \in Sessions : OpenNew(s)
  \/ \E s \in Sessions : handleSignOut(s)
  \/ \E s \in Sessions : fetchDemandes(s)
  \/ \E s \in Sessions, id \in DemandeIds, statut \in StatutValidation :
       handleValidation(s, id, statut)
  \/ \E s \in Sessions : handleValidationUpdate(s)
  \/ \E s \in Sessions : handleValidationInsert(s)
  \/ \E s \in Sessions : handleValidationLog(s)
  \/ \E s \in Sessions : fetchVehicules(s)
  \/ \E s \in Sessions, v \in VehiculeIds : onSubmit(s, v, 0)
  \/ \E s \in Sessions : onSubmitInsert(s)
  \/ \E s \in Sessions : onSubmitLog(s)

\* The same with attachments.
NextAttachments ==
  \/ Next
  \/ \E s \in Sessions : PickFile(s)
  \/ \E s \in Sessions, v \in VehiculeIds, n \in 1..MaxFiles : onSubmit(s, v, n)
  \/ \E s \in Sessions : uploadFiles(s)
  \/ \E s \in Sessions : uploadFilesInsert(s)

\* The submission of requests, with attachments, by a chauffeur and by two
\* users of other roles, while an admin edits and deletes vehicules and users.
NextSubmit ==
  \/ \E s \in {"chauffeur", "chauffeur2", "pompiste", "admin"} :
       \/ OpenNewFuelRequest(s)
       \/ fetchVehicules(s)
       \/ PickFile(s)
       \/ \E v \in VehiculeIds, n \in 0..MaxFiles : onSubmit(s, v, n)
       \/ onSubmitInsert(s)
       \/ uploadFiles(s)
       \/ uploadFilesInsert(s)
       \/ onSubmitLog(s)
       \/ handleSignOut(s)
  \/ \E s \in {"admin"} :
       \/ \E p \in {"users", "vehicles"} : OpenAdminPage(s, p)
       \/ \E actif \in BOOLEAN : VehiclesHandleEdit(s, "v1", actif)
       \/ VehiclesHandleSubmitStore(s)
       \/ VehiclesHandleSubmitLog(s)
       \/ UsersHandleEdit(s, "chauffeur2", "pompiste")
       \/ UsersHandleEdit(s, "pompiste", "chauffeur")
       \/ UsersHandleSubmitStore(s)
       \/ UsersHandleSubmitLog(s)
       \/ UsersHandleDelete(s, "chauffeur")
       \/ UsersHandleDeleteStore(s)
       \/ UsersHandleDeleteLog(s)

\* The whole application for three users: the chauffeur submits, the
\* superviseur decides, the admin manages users, vehicules and types.
NextAdmin ==
  \/ \E s \in {"chauffeur", "superviseur", "admin"} : handleSignOut(s)
  \/ \E s \in {"chauffeur"} :
       \/ OpenNew(s)
       \/ fetchVehicules(s)
       \/ \E v \in VehiculeIds : onSubmit(s, v, 0)
       \/ onSubmitInsert(s)
       \/ onSubmitLog(s)
  \/ \E s \in {"superviseur"} :
       \/ Mount(s)
       \/ fetchDemandes(s)
       \/ \E id \in DemandeIds, statut \in StatutValidation :
            handleValidation(s, id, statut)
       \/ handleValidationUpdate(s)
       \/ handleValidationInsert(s)
       \/ handleValidationLog(s)
  \/ \E s \in {"admin"} :
       \/ \E p \in {"users", "vehicles", "settings"} : OpenAdminPage(s, p)
       \/ \E u \in {"pompiste"}, role \in {"directeur"} : UsersHandleEdit(s, u, role)
       \/ \E u \in NewUserIds, role \in {"chauffeur"} : UsersHandleCreate(s, u, role)
       \/ UsersHandleSubmitStore(s)
       \/ UsersHandleSubmitLog(s)
       \/ \E u \in {"chauffeur", "superviseur"} : UsersHandleDelete(s, u)
       \/ UsersHandleDeleteStore(s)
       \/ UsersHandleDeleteLog(s)
       \/ \E v \in VehiculeIds, actif \in BOOLEAN : VehiclesHandleEdit(s, v, actif)
       \/ \E v \in NewVehiculeIds, t \in TypeIds : VehiclesHandleCreate(s, v, t)
       \/ VehiclesHandleSubmitStore(s)
       \/ VehiclesHandleSubmitLog(s)
       \/ \E v \in VehiculeIds : VehiclesHandleDelete(s, v)
       \/ VehiclesHandleDeleteStore(s)
       \/ VehiclesHandleDeleteLog(s)
       \/ \E t \in TypeIds : SettingsHandleEdit(s, t)
       \/ \E t \in NewTypeIds : SettingsHandleCreate(s, t)
       \/ SettingsHandleSubmitStore(s)
       \/ SettingsHandleSubmitLog(s)
       \/ \E t \in TypeIds : SettingsHandleDelete(s, t)
       \/ SettingsHandleDeleteStore(s)
       \/ SettingsHandleDeleteLog(s)

\* A chauffeur submits requests, with attachments, and a superviseur and a
\* pompiste decide on them.
NextLive ==
  \/ \E s \in {"chauffeur", "superviseur", "pompiste"} : handleSignOut(s)
  \/ \E s \in {"chauffeur"} :
       \/ OpenNew(s)
       \/ fetchVehicules(s)
       \/ PickFile(s)
       \/ \E v \in VehiculeIds, n \in 0..MaxFiles : onSubmit(s, v, n)
       \/ onSubmitInsert(s)
       \/ uploadFiles(s)
       \/ uploadFilesInsert(s)
       \/ onSubmitLog(s)
  \/ \E s \in {"chauffeur", "superviseur", "pompiste"} :
       \/ Mount(s)
       \/ fetchDemandes(s)
       \/ \E id \in DemandeIds, statut \in StatutValidation :
            handleValidation(s, id, statut)
       \/ handleValidationUpdate(s)
       \/ handleValidationInsert(s)
       \/ handleValidationLog(s)

\* The steps of session s in which an awaited call returns: the store, or
\* the client library after its timeout, answers every call.
StoreReply(s) ==
  \/ fetchDemandes(s)
  \/ handleValidationUpdate(s)
  \/ handleValidationInsert(s)
  \/ handleValidationLog(s)
  \/ fetchVehicules(s)
  \/ onSubmitInsert(s)
  \/ uploadFiles(s)
  \/ uploadFilesInsert(s)
  \/ onSubmitLog(s)

\* The user picks files while the form has room for them below MaxPending.
PickFiles(s, files) ==
  /\ Len(form[s].uploadedFiles) + Len(files) <= MaxPending
  /\ handleFileUpload(s, files)

\* The attachment list of the form: a chauffeur picks files, one or two at a
\* time, and removes them again.
NextFiles ==
  \E s \in {"chauffeur"} :
    \/ OpenNew(s)
    \/ fetchVehicules(s)
    \/ \E f1, f2 \in Files : PickFiles(s, <<f1>>) \/ PickFiles(s, <<f1, f2>>)
    \/ \E index \in 0..(MaxPending - 1) : removeFile(s, index)
    \/ handleSignOut(s)

\* The identities: a visitor registers an account, and an admin creates,
\* edits and deletes users on the Users page.
NextRegister ==
  \/ OpenRegister
  \/ OpenLogin
  \/ \E id \in NewUserIds, role \in UserRole, confirmed \in BOOLEAN :
       RegisterOnSubmit(id, role, confirmed)
  \/ \E reply \in SignUpReplies : RegisterSignUp(reply)
  \/ RegisterInsert
  \/ \E s \in {"admin"} :
       \/ OpenAdminPage(s, "users")
       \/ handleSignOut(s)
       \/ \E u \in {"pompiste"}, role \in {"directeur"} : UsersHandleEdit(s, u, role)
       \/ \E u \in NewUserIds, role \in {"chauffeur"} : UsersHandleCreate(s, u, role)
       \/ UsersHandleSubmitStore(s)
       \/ UsersHandleSubmitLog(s)
       \/ \E u \in {"chauffeur"} : UsersHandleDelete(s, u)
       \/ UsersHandleDeleteStore(s)
       \/ UsersHandleDeleteLog(s)

\* The management of vehicules and types: an admin and a directeur use the
\* Users, Vehicles and Settings pages, each may take his own or the other's
\* role away, a directeur and a pompiste list the vehicules, and a chauffeur
\* submits requests for them.
NextManage ==
  \/ \E s \in {"chauffeur"} :
       \/ OpenNew(s)
       \/ \E v \in VehiculeIds : onSubmit(s, v, 0)
       \/ onSubmitInsert(s)
       \/ onSubmitLog(s)
  \/ \E s \in {"admin", "directeur"} :
       \/ \E p \in {"users", "vehicles", "settings"} : OpenAdminPage(s, p)
       \/ \E u \in {"admin", "directeur"} : UsersHandleEdit(s, u, "chauffeur")
       \/ UsersHandleSubmitStore(s)
       \/ UsersHandleSubmitLog(s)
       \/ \E v \in VehiculeIds, actif \in BOOLEAN : VehiclesHandleEdit(s, v, actif)
       \/ \E v \in NewVehiculeIds, t \in TypeIds : VehiclesHandleCreate(s, v, t)
       \/ VehiclesHandleSubmitStore(s)
       \/ VehiclesHandleSubmitLog(s)
       \/ \E v \in VehiculeIds : VehiclesHandleDelete(s, v)
       \/ VehiclesHandleDeleteStore(s)
       \/ VehiclesHandleDeleteLog(s)
       \/ \E t \in TypeIds : SettingsHandleEdit(s, t)
       \/ \E t \in NewTypeIds : SettingsHandleCreate(s, t)
       \/ SettingsHandleSubmitStore(s)
       \/ SettingsHandleSubmitLog(s)
       \/ \E t \in TypeIds : SettingsHandleDelete(s, t)
       \/ SettingsHandleDeleteStore(s)
       \/ SettingsHandleDeleteLog(s)
  \/ \E s \in {"directeur", "pompiste"} : OpenNewFuelRequest(s)
  \/ \E s \in {"chauffeur", "directeur", "pompiste"} : fetchVehicules(s)

\* The demo accounts: a visitor runs createDemoUsers, again and again, while
\* an admin deletes a user on the Users page.
NextDemo ==
  \/ OpenSetupDemo
  \/ OpenLogin
  \/ createDemoUsers
  \/ \E reply \in SignUpReplies : createDemoUsersSignUp(reply)
  \/ \E reply \in {"ok", "error", "rate limit"}, same \in BOOLEAN :
       createDemoUsersUpsert(reply, same)
  \/ createDemoUsersWait
  \/ \E s \in {"admin"} :
       \/ OpenAdminPage(s, "users")
       \/ \E u \in {"chauffeur"} : UsersHandleDelete(s, u)
       \/ UsersHandleDeleteStore(s)
       \/ UsersHandleDeleteLog(s)

\* The steps in which an awaited call of createDemoUsers returns, or its timer
\* fires.
DemoReply ==
  \/ \E reply \in SignUpReplies : createDemoUsersSignUp(reply)
  \/ \E reply \in {"ok", "error", "rate limit"}, same \in BOOLEAN :
       createDemoUsersUpsert(reply, same)
  \/ createDemoUsersWait

Spec == Init /\ [][Next]_vars

SpecDemo == Init /\ [][NextDemo]_vars /\ WF_vars(DemoReply)

SpecManage == Init /\ [][NextManage]_vars

SpecRegister == Init /\ [][NextRegister]_vars

SpecFiles == Init /\ [][NextFiles]_vars

SpecLive ==
  /\ Init /\ [][NextLive]_vars
  /\ \A s \in {"chauffeur", "superviseur", "pompiste"} : WF_vars(StoreReply(s))

SpecAttachments == Init /\ [][NextAttachments]_vars

SpecSubmit == Init /\ [][NextSubmit]_vars

SpecAdmin == Init /\ [][NextAdmin]_vars

(* ------------------- the transition table of the spec ------------------ *)
\* (current status, actor role) -> next status on approve, on reject, level
TransitionTable ==
  { [current |-> "en_attente", role |-> "superviseur",
     approuve |-> "valide_superviseur", rejete |-> "rejete", level |-> 1],
    [current |-> "valide_superviseur", role |-> "pompiste",
     approuve |-> "valide_pompiste", rejete |-> "rejete", level |-> 2],
    [current |-> "valide_pompiste", role |-> "directeur",
     approuve |-> "valide_dg", rejete |-> "rejete", level |-> 3] }

\* The (current status, actor role) pairs of the transition table.
InTable(statutDemande, role) ==
  \E e \in TransitionTable : e.current = statutDemande /\ e.role = role

\* The step is session s passing the role/statut chain of handleValidation,
\* the store applying the update of s, the store accepting the validation of s.
Passes(s) == pc[s] = "idle" /\ pc'[s] = "update"
Updates(s) == pc[s] = "update" /\ pc'[s] = "insert"
Inserts(s) == pc[s] = "insert" /\ pc'[s] = "log"

\* The statut of the stored request id.
Statut(id) == demandes_carburant[id].statut

\* The stored requests, and the validations and the log entries of request id.
AllDemandes == { demandes_carburant[i] : i \in 1..Len(demandes_carburant) }
ValidationsOf(id) == { row \in BagToSet(validations) : row.id_demande = id }
LogsOf(id) == { row \in BagToSet(logs) : row.details.demande = id }

(* -------------------------------- C1 ----------------------------------- *)
\* C1: a decide moves the status exactly as the transition table says: the
\* update of a call stores the next status that the table gives for the
\* request's current status, the caller's role and the outcome passed, and the
\* status of a request changes in no other way.
C1_StatusFollowsTable ==
  [][ \A id \in 1..Len(demandes_carburant) :
        demandes_carburant'[id].statut # Statut(id) =>
          \E s \in Sessions, e \in TransitionTable :
             /\ Updates(s) /\ frame[s].demandeId = id
             /\ e.current = Statut(id) /\ e.role = user[s].role
             /\ demandes_carburant'[id].statut =
                  (IF frame[s].statut = "approuve" THEN e.approuve ELSE e.rejete)
    ]_vars

(* -------------------------------- C2 ----------------------------------- *)
\* C2: a decide on a request whose current status and the caller's role are not
\* a pair of the transition table fails, that is, it does not go on to its
\* store calls; and the refusal ('Action non autorisée') leaves every table of
\* the store and every running call as it was.
C2_UnauthorizedChangesNothing ==
  [][ /\ \A s \in Sessions :
           Passes(s) => InTable(Statut(frame'[s].demandeId), user[s].role)
      /\ toast' = "Action non autorisée" =>
           storeVars' = storeVars /\ pc' = pc /\ frame' = frame
    ]_vars

(* -------------------------------- C3 ----------------------------------- *)
\* One step forward along en_attente -> valide_superviseur -> valide_pompiste
\* -> valide_dg, or the rejection of a request that is not yet at its end.
Forward(old, new) ==
  \/ new = old
  \/ <<old, new>> \in { <<"en_attente", "valide_superviseur">>,
                        <<"valide_superviseur", "valide_pompiste">>,
                        <<"valide_pompiste", "valide_dg">> }
  \/ new = "rejete" /\ old \in {"en_attente", "valide_superviseur", "valide_pompiste"}

\* C3: whatever the sessions do, each from its own fetched list, the stored
\* status of a request only moves forward or to rejete; it never goes back.
C3_StatusNeverReverts ==
  [][ \A id \in 1..Len(demandes_carburant) :
        Forward(Statut(id), demandes_carburant'[id].statut) ]_vars

(* -------------------------------- C4 ----------------------------------- *)
\* C4: of two sessions that decide on the same request at the same stage, at
\* most one gets its validation recorded: a request never has validations of
\* one level from two validators.
C4_OneWinnerPerStage ==
  \A r1, r2 \in BagToSet(validations) :
    (r1.id_demande = r2.id_demande /\ r1.niveau_validation = r2.niveau_validation)
      => r1.valide_par = r2.valide_par

(* -------------------------------- C5 ----------------------------------- *)
\* The status a validation row stands for.
StatutOf(row) ==
  IF row.statut_validation = "rejete" THEN "rejete"
  ELSE IF row.niveau_validation = 1 THEN "valide_superviseur"
  ELSE IF row.niveau_validation = 2 THEN "valide_pompiste"
  ELSE "valide_dg"

\* C5: the effects of a decide are all or nothing: once no call is running,
\* every request whose status a decide has changed has the validation row of
\* that change and the log entry of that validation.
C5_AllOrNothing ==
  (\A s \in Sessions : pc[s] = "idle") =>
    \A id \in 1..Len(demandes_carburant) :
      Statut(id) # "en_attente" =>
        \E row \in ValidationsOf(id) :
          /\ StatutOf(row) = Statut(id)
          /\ \E l \in LogsOf(id) :
               /\ l.utilisateur_id = row.valide_par
               /\ l.action = [label |-> "Validation",
                              statut |-> row.statut_validation,
                              niveau |-> row.niveau_validation]

(* -------------------------------- C6 ----------------------------------- *)
\* C6: every successful decide creates exactly one validation row, for its
\* request and by its caller, with the level of the stage of the caller's role
\* and the outcome passed: the row is added in the one step between the update
\* and the log of the call, the success toast follows without another row, and
\* no other step adds or removes a validation row.
C6_OneValidationPerDecide ==
  [][ /\ \A s \in Sessions :
           Inserts(s) =>
             \E e \in TransitionTable :
               /\ e.role = user[s].role /\ e.current = frame[s].seen
               /\ validations' = validations (+) SetToBag({
                    [id_demande |-> frame[s].demandeId, valide_par |-> user[s].id,
                     niveau_validation |-> e.level,
                     statut_validation |-> frame[s].statut] })
      /\ \A s \in Sessions :
           (pc[s] = "log" /\ pc'[s] = "idle") =>
             /\ toast' \in {"Demande approuvée avec succès", "Demande rejetée avec succès"}
             /\ (toast' = "Demande approuvée avec succès") = (frame[s].statut = "approuve")
             /\ validations' = validations
      /\ toast' \in {"Demande approuvée avec succès", "Demande rejetée avec succès"} =>
           \E s \in Sessions : pc[s] = "log" /\ pc'[s] = "idle"
      /\ validations' # validations => \E s \in Sessions : Inserts(s)
    ]_vars

\* The pompiste has rejected a request: his row of level 2 is recorded and his
\* call is about to report success.
C6_Witness ==
  \E s \in Sessions :
    /\ pc[s] = "log"
    /\ user[s].role = "pompiste"
    /\ frame[s].statut = "rejete"
    /\ CopiesIn([id_demande |-> frame[s].demandeId, valide_par |-> user[s].id,
                 niveau_validation |-> 2, statut_validation |-> "rejete"],
                validations) = 1

(* -------------------------------- C7 ----------------------------------- *)
\* C7: a decide repeated with the same request, actor and outcome after the
\* first one advanced the status fails and leaves no second validation row:
\* a call does not go on to its store calls when its decision is already
\* recorded, and no validation row exists twice.
C7_RepeatedDecideFails ==
  [][ /\ \A s \in Sessions :
           Passes(s) =>
             ~ \E row \in ValidationsOf(frame'[s].demandeId) :
                 /\ row.valide_par = user[s].id
                 /\ row.statut_validation = frame'[s].statut
      /\ \A row \in BagToSet(validations') : CopiesIn(row, validations') = 1
    ]_vars

(* -------------------------------- C8 ----------------------------------- *)
\* C8: rejete and valide_dg are terminal: once a request is stored with one of
\* them, no later decide changes its status.
C8_TerminalStatus ==
  [][ \A id \in 1..Len(demandes_carburant) :
        Statut(id) \in {"rejete", "valide_dg"} =>
          demandes_carburant'[id].statut = Statut(id)
    ]_vars

(* -------------------------------- C9 ----------------------------------- *)
\* C9: the write policies of the store enforce the role gates of the
\* transition table: the update policy of demandes_carburant lets a caller
\* update a request, and the insert policy of validations lets him record a
\* validation of it, only when his role and the request's current status are a
\* pair of the table.
C9_PoliciesEnforceTable ==
  \A uid \in Users, d \in AllDemandes :
    /\ DemandesUpdatePolicy(uid, d) => InTable(d.statut, utilisateurs[uid])
    /\ \A niveau \in 1..3, statut \in StatutValidation :
         ValidationsInsertPolicy(uid,
             [id_demande |-> d.id, valide_par |-> uid,
              niveau_validation |-> niveau, statut_validation |-> statut])
           => InTable(d.statut, utilisateurs[uid])

(* -------------------------------- C10 ---------------------------------- *)
\* C10: fetchDemandes changes no table of the store; when its query succeeds
\* the list it sets is, for a chauffeur, the stored requests he made, and for
\* every other role all the stored requests; and the list of a chauffeur never
\* holds a request of another user.
C10_VisibleRequests ==
  [][ /\ \A s \in Sessions :
           (loading[s] /\ ~loading'[s] /\ page'[s] = "requests") =>
             /\ storeVars' = storeVars
             /\ toast' # "Erreur lors du chargement des demandes" =>
                  demandes'[s] =
                    IF user[s].role = "chauffeur"
                    THEN { d \in AllDemandes : d.id_utilisateur = user[s].id }
                    ELSE AllDemandes
      /\ \A s \in Sessions :
           user[s].role = "chauffeur" =>
             \A d \in demandes'[s] : d.id_utilisateur = user[s].id
    ]_vars

\* No store call has failed; a chauffeur and a user of another role have both
\* fetched their lists; the other user sees the request of the second
\* chauffeur, the chauffeur does not.
C10_Witness ==
  /\ faults = 0
  /\ \E s, t \in Sessions :
       /\ user[s].role = "chauffeur" /\ user[t].role # "chauffeur"
       /\ page[s] = "requests" /\ ~loading[s]
       /\ page[t] = "requests" /\ ~loading[t]
       /\ demandes[s] = {}
       /\ \E d \in demandes[t] : d.id_utilisateur # user[s].id
       /\ demandes[t] = AllDemandes

(* -------------------------------- C11 ---------------------------------- *)
\* The step is the store accepting the insert of the request of session s.
SubmitInserts(s) == pc[s] = "s_insert" /\ pc'[s] \in {"s_upload", "s_log"}

\* The stored request with the given id.
Demande(id) ==
  CHOOSE d \in AllDemandes : d.id = id

\* C11: a successful onSubmit creates exactly one request, with the statut
\* en_attente, the calling user as its requester and no quantite_servie: the
\* insert step of a call appends one such row under a new id, the rest of the
\* call (up to the success toast) adds none, and no other step adds a request.
C11_SubmitCreatesPending ==
  [][ /\ \A s \in Sessions :
           SubmitInserts(s) =>
             \E row \in AllDemandes' :
               /\ demandes_carburant' = Append(demandes_carburant, row)
               /\ row.id \notin StoredIds
               /\ row.statut = "en_attente"
               /\ row.id_utilisateur = user[s].id
               /\ row.quantite_servie = NULL
      /\ \A s \in Sessions :
           (pc[s] = "s_log" /\ pc'[s] = "idle") =>
             /\ toast' = "Demande créée avec succès"
             /\ demandes_carburant' = demandes_carburant
      /\ toast' = "Demande créée avec succès" =>
           \E s \in Sessions : pc[s] = "s_log" /\ pc'[s] = "idle"
      /\ StoredIds' \ StoredIds # {} => \E s \in Sessions : SubmitInserts(s)
    ]_vars

\* The request of a chauffeur is stored as en_attente under his id, and his
\* call is about to report success.
C11_Witness ==
  \E s \in Sessions :
    /\ pc[s] = "s_log"
    /\ frame[s].demandeId \in StoredIds
    /\ Demande(frame[s].demandeId).statut = "en_attente"
    /\ Demande(frame[s].demandeId).id_utilisateur = user[s].id
    /\ Cardinality(StoredIds) = 1

(* -------------------------------- C12 ---------------------------------- *)
\* C12: onSubmit succeeds only for a chauffeur: when the store answers the
\* insert of a caller whose stored role is not chauffeur, the call ends with
\* the error toast and no request is added; and every request that is added
\* has the calling user, a chauffeur, as its requester.
C12_OnlyChauffeurSubmits ==
  [][ /\ \A s \in Sessions :
           (pc[s] = "s_insert" /\ pc'[s] # "s_insert"
              /\ ~HasRole(user[s].id, {"chauffeur"})) =>
             /\ pc'[s] = "idle"
             /\ toast' = "Erreur lors de la création de la demande"
             /\ demandes_carburant' = demandes_carburant
      /\ \A id \in StoredIds' \ StoredIds :
           \E s \in Sessions :
             /\ SubmitInserts(s)
             /\ HasRole(user[s].id, {"chauffeur"})
             /\ \A d \in AllDemandes' : d.id = id => d.id_utilisateur = user[s].id
    ]_vars

\* No call has failed by itself, and the only session on the form, that of a
\* user who is not a chauffeur and who has the vehicules to choose from, has
\* just been refused: nothing is stored.
C12_Witness ==
  /\ faults = 0
  /\ toast = "Erreur lors de la création de la demande"
  /\ demandes_carburant = <<>>
  /\ \E s \in Sessions :
       /\ page[s] = "new" /\ pc[s] = "idle"
       /\ form[s].vehicules # {}
       /\ ~HasRole(s, {"chauffeur"})
       /\ \A t \in Sessions \ {s} : page[t] # "new"

(* -------------------------------- C13 ---------------------------------- *)
\* C13: a request row is only written for a vehicule that is actif when the
\* row is written, also when the vehicule was deactivated after the form had
\* fetched it.
C13_VehiculeActifAtInsert ==
  [][ \A s \in Sessions :
        SubmitInserts(s) => vehicules[frame[s].id_vehicule].actif ]_vars

(* -------------------------------- C14 ---------------------------------- *)
\* C14: every onSubmit that has created a request row also appends its log
\* entry: a call that has inserted its row ends with one more log entry of
\* the caller for the creation, also when the upload of its files fails.
C14_SubmitLogs ==
  [][ \A s \in Sessions :
        (pc[s] \in {"s_upload", "s_justificatifs", "s_log"} /\ pc'[s] = "idle") =>
          logs' = logs (+) SetToBag({
            [utilisateur_id |-> user[s].id,
             action |-> [label |-> "Création demande carburant", statut |-> "",
                         niveau |-> 0],
             details |-> [demande |-> 0, objet |-> frame[s].id_vehicule]] })
    ]_vars

(* -------------------------------- C15 ---------------------------------- *)
\* C15: when the upload fails after the request row was created, the row stays
\* in the store and the caller is told of a partial success, which is neither
\* the toast of a full success nor the toast of a submit that created nothing.
C15_PartialSuccessReported ==
  [][ \A s \in Sessions :
        (pc[s] \in {"s_upload", "s_justificatifs"} /\ pc'[s] = "idle") =>
          /\ frame[s].demandeId \in StoredIds'
          /\ toast' \notin {"Demande créée avec succès",
                            "Erreur lors de la création de la demande"}
    ]_vars

(* -------------------------------- C16 ---------------------------------- *)
\* C16: attachments are written only after the request row exists: in every
\* reachable state each row of justificatifs and each uploaded blob refers to
\* a request that is in the store.
C16_AttachmentsHaveRequest ==
  /\ \A j \in BagToSet(justificatifs) : j.id_demande \in StoredIds
  /\ \A b \in blobs : b.id_demande \in StoredIds

(* -------------------------------- C17 ---------------------------------- *)
\* C17: validations are append-only: whatever the application does, every
\* validation row that was inserted stays as it was; the table only grows.
C17_ValidationsAppendOnly ==
  [][ \A row \in BagToSet(validations) :
        CopiesIn(row, validations') >= CopiesIn(row, validations) ]_vars

(* -------------------------------- C18 ---------------------------------- *)
\* C18: a handleValidation for an id that is not in the caller's list changes
\* no state and reports a not-found error, which is not the toast of an
\* unauthorized transition: a step that leaves everything but the toast as it
\* was, taken where a lookup can miss, raises such a toast.
C18_NotFoundReported ==
  [][ ( /\ UNCHANGED <<storeVars, user, visitor, page, demandes, loading, form, pc,
                       frame, faults>>
        /\ \E s \in Sessions, id \in DemandeIds :
             /\ page[s] = "requests" /\ ~loading[s] /\ pc[s] = "idle"
             /\ \A d \in demandes[s] : d.id # id )
      => toast' \notin {"none", "Action non autorisée"} ]_vars

(* -------------------------------- C19 ---------------------------------- *)
\* The positions of onSubmit and handleValidation at which a store call is
\* awaited.
Awaiting ==
  {"update", "insert", "log", "s_insert", "s_upload", "s_justificatifs", "s_log"}

\* C19: no error is swallowed: whenever a store call of onSubmit or of
\* handleValidation fails, the step reports an error toast, not a success.
C19_NoErrorSwallowed ==
  [][ \A s \in Sessions :
        (pc[s] \in Awaiting /\ pc'[s] # pc[s] /\ faults' > faults) =>
          toast' \in {"Erreur lors de la validation",
                      "Erreur lors de la création de la demande"} ]_vars

(* -------------------------------- C20 ---------------------------------- *)
\* The positions at which a handler has had its change accepted by the store
\* and awaits log_action.
Logging ==
  {"log", "s_log", "u_update_log", "u_insert_log", "u_delete_log",
   "v_update_log", "v_insert_log", "v_delete_log",
   "t_update_log", "t_insert_log", "t_delete_log"}

\* C20: every mutating operation that succeeds appends a log entry whose actor
\* is the calling user, and no operation updates or deletes a log entry.
C20_EveryMutationLogged ==
  [][ /\ \A s \in Sessions :
           (pc[s] \in Logging /\ pc'[s] = "idle") =>
             \E l \in BagToSet(logs') :
               /\ l.utilisateur_id = user[s].id
               /\ CopiesIn(l, logs') = CopiesIn(l, logs) + 1
      /\ \A l \in BagToSet(logs) : CopiesIn(l, logs') >= CopiesIn(l, logs)
    ]_vars

(* -------------------------------- C21 ---------------------------------- *)
\* C21: in every reachable state a request that has a quantite_servie is
\* valide_pompiste or valide_dg, or was rejected after the pompiste had
\* approved it; no request that is en_attente or valide_superviseur has a
\* quantite_servie.
C21_ServedOnlyAfterSecondStage ==
  \A d \in AllDemandes :
    /\ d.quantite_servie # NULL =>
         \/ d.statut \in {"valide_pompiste", "valide_dg"}
         \/ /\ d.statut = "rejete"
            /\ \E row \in ValidationsOf(d.id) :
                 row.niveau_validation = 2 /\ row.statut_validation = "approuve"
    /\ d.statut \in {"en_attente", "valide_superviseur"} =>
         d.quantite_servie = NULL

\* A request has been approved by the superviseur, whose validation is
\* recorded; it is valide_superviseur and has no quantite_servie.
C21_Witness ==
  \E d \in AllDemandes :
    /\ d.statut = "valide_superviseur"
    /\ d.quantite_servie = NULL
    /\ \E row \in ValidationsOf(d.id) :
         row.niveau_validation = 1 /\ row.statut_validation = "approuve"

(* -------------------------------- C24 ---------------------------------- *)
\* C24: every change of the statut of a request sets its date_modification to
\* the time of the change, which is later than every earlier write; the
\* date_modification of a request never decreases and is never earlier than
\* its date_demande.
C24_LastModifiedFollowsChanges ==
  [][ /\ \A id \in 1..Len(demandes_carburant) :
           /\ demandes_carburant'[id].statut # Statut(id) =>
                /\ now' > now
                /\ demandes_carburant'[id].date_modification = now'
           /\ demandes_carburant'[id].date_modification
                >= demandes_carburant[id].date_modification
      /\ \A d \in AllDemandes' : d.date_modification >= d.date_demande
    ]_vars

\* A request whose statut has changed twice: it was modified after it was
\* made, at the time of the last write of the store.
C24_Witness ==
  \E d \in AllDemandes :
    /\ d.statut = "valide_pompiste"
    /\ d.date_modification > d.date_demande + 1
    /\ d.date_modification = now

(* -------------------------------- C26 ---------------------------------- *)
\* The values useAuth().user can have: a user of each role, or nobody.
AnyUser == { [id |-> "u", role |-> r] : r \in UserRole } \cup {NoUser}

\* C26: the predicate that shows the buttons and the gate of the handler
\* agree: for every role (or no user) and every statut, canValidate is true
\* exactly when handleValidation does not take its 'Action non autorisée'
\* branch; so a call goes on to its store calls only for a request of the list
\* whose buttons are shown, and it is refused only where a listed request has
\* no buttons.
C26_ButtonsAgreeWithGate ==
  [][ /\ \A u \in AnyUser, statutDemande \in StatutDemande,
            statut \in StatutValidation :
           canValidate(u, [statut |-> statutDemande])
             = (NextStatut(u.role, statutDemande, statut).newStatut # "none")
      /\ \A s \in Sessions :
           Passes(s) =>
             \E d \in demandes[s] :
               d.id = frame'[s].demandeId /\ canValidate(user[s], d)
      /\ toast' = "Action non autorisée" =>
           \E s \in Sessions :
             /\ page[s] = "requests" /\ pc[s] = "idle"
             /\ \E d \in demandes[s] : ~canValidate(user[s], d)
    ]_vars

\* The pompiste is shown the buttons of a request that is valide_superviseur
\* in his list, and his call has passed the gate.
C26_Witness ==
  \E s \in Sessions :
    /\ user[s].role = "pompiste"
    /\ pc[s] = "update"
    /\ \E d \in demandes[s] :
         /\ d.id = frame[s].demandeId
         /\ d.statut = "valide_superviseur"
         /\ canValidate(user[s], d)

(* -------------------------------- C27 ---------------------------------- *)
\* The role that validates at a level.
RoleOfLevel(niveau) ==
  CASE niveau = 1 -> "superviseur"
    [] niveau = 2 -> "pompiste"
    [] niveau = 3 -> "directeur"
    [] OTHER -> "none"

\* C27: every validation row that handleValidation inserts has the calling
\* user as its validator and a level that corresponds to the role of his
\* session at the time of the insert (1 superviseur, 2 pompiste, 3
\* directeur); rows come from no other step, and no row has a level outside
\* 1..3.
C27_ValidatorMatchesLevel ==
  [][ /\ \A s \in Sessions :
           Inserts(s) =>
             \E row \in BagToSet(validations') :
               /\ validations' = validations (+) SetToBag({row})
               /\ row.valide_par = user[s].id
               /\ row.niveau_validation \in 1..3
               /\ user[s].role = RoleOfLevel(row.niveau_validation)
      /\ validations' # validations => \E s \in Sessions : Inserts(s)
      /\ \A row \in BagToSet(validations') : row.niveau_validation \in 1..3
    ]_vars

\* The directeur has recorded a validation of level 3 of a request that has
\* the validations of the two levels before.
C27_Witness ==
  \E r1, r2, r3 \in BagToSet(validations) :
    /\ r1.id_demande = r3.id_demande /\ r2.id_demande = r3.id_demande
    /\ r1.niveau_validation = 1 /\ r2.niveau_validation = 2
    /\ r3.niveau_validation = 3 /\ r3.valide_par = "directeur"

(* -------------------------------- C25 ---------------------------------- *)
\* The toasts with which onSubmit and handleValidation end.
Outcomes ==
  {"Demande créée avec succès", "Erreur lors de la création de la demande",
   "Demande approuvée avec succès", "Demande rejetée avec succès",
   "Erreur lors de la validation"}

Without(list, index) ==
  [ j \in 1..(Len(list) - 1) |-> IF j <= index THEN list[j] ELSE list[j + 1] ]

\* C29: after any sequence of handleFileUpload and removeFile calls every
\* file of uploadedFiles is a JPEG, a PNG or a PDF of at most 5 MB:
\* handleFileUpload appends the picked files of these types and sizes, in
\* their order, and none of the others; removeFile(index) removes exactly the
\* file at that index and keeps the others in their order.
C29_PendingFilesValid ==
  [][ \A s \in Sessions :
        /\ \A j \in 1..Len(form'[s].uploadedFiles) :
             /\ form'[s].uploadedFiles[j].type
                  \in {"image/jpeg", "image/png", "application/pdf"}
             /\ form'[s].uploadedFiles[j].size <= 5 * 1024 * 1024
        /\ \A f1, f2 \in IF page[s] = "new" THEN Files ELSE {} :
             /\ handleFileUpload(s, <<f1>>) =>
                  form'[s].uploadedFiles =
                    IF f1.type # "text/plain" /\ f1.size <= 5 * 1024 * 1024
                    THEN Append(form[s].uploadedFiles, f1)
                    ELSE form[s].uploadedFiles
             /\ handleFileUpload(s, <<f1, f2>>) =>
                  /\ Len(form'[s].uploadedFiles) >= Len(form[s].uploadedFiles)
                  /\ SubSeq(form'[s].uploadedFiles, 1, Len(form[s].uploadedFiles))
                       = form[s].uploadedFiles
                  /\ \A f \in {f1, f2} :
                       (f.type = "text/plain" \/ f.size > 5 * 1024 * 1024) =>
                         \A j \in 1..Len(form'[s].uploadedFiles) :
                           j > Len(form[s].uploadedFiles) =>
                             form'[s].uploadedFiles[j] # f
        /\ \A index \in 0..(MaxPending - 1) :
             removeFile(s, index) =>
               form'[s].uploadedFiles = Without(form[s].uploadedFiles, index)
    ]_vars

\* A file of an unsupported type has just been picked and refused: the list
\* holds the two files picked with it or before it, a JPEG and then a PNG.
C29_Witness ==
  /\ toast = "Type de fichier non supporté"
  /\ \E s \in Sessions :
       /\ Len(form[s].uploadedFiles) = 2
       /\ form[s].uploadedFiles[1].type = "image/jpeg"
       /\ form[s].uploadedFiles[2].type = "image/png"

(* -------------------------------- C22 ---------------------------------- *)
\* C22: identities are created, updated and deleted only by a caller whose
\* role is admin or directeur: every step that changes the table utilisateurs
\* is the store's answer to a call of a signed-in user who has one of these
\* roles.
C22_OnlyManagersWriteIdentities ==
  [][ utilisateurs' # utilisateurs =>
        \E s \in Sessions :
          /\ pc[s] \in {"u_update", "u_insert", "u_delete"}
          /\ pc'[s] # pc[s]
          /\ HasRole(user[s].id, {"admin", "directeur"}) ]_vars

(* -------------------------------- C23 ---------------------------------- *)
\* The store calls of the Vehicles page and of the Settings page.
VehiculeWrites == {"v_update", "v_insert", "v_delete"}
TypeWrites == {"t_update", "t_insert", "t_delete"}

\* C23: a write to vehicules takes effect only for a caller whose role is
\* admin or directeur, and a write to types_vehicules only for an admin; the
\* write of a caller of any other role fails, that is, its handler ends with
\* an error, and leaves both tables as they are; every signed-in user who
\* lists the vehicules gets them, whatever his role.
C23_VehiculeWritesGated ==
  [][ /\ \A s \in Sessions :
          pc[s] \in VehiculeWrites \cup TypeWrites /\ pc'[s] # pc[s] =>
            LET allowed == IF pc[s] \in VehiculeWrites
                           THEN HasRole(user[s].id, {"admin", "directeur"})
                           ELSE HasRole(user[s].id, {"admin"})
            IN ~allowed =>
                 /\ vehicules' = vehicules
                 /\ types_vehicules' = types_vehicules
                 /\ pc'[s] = "idle"
                 /\ toast' \in {"Erreur lors de la sauvegarde",
                                "Erreur lors de la suppression"}
      /\ vehicules' # vehicules =>
            \E s \in Sessions : /\ pc[s] \in VehiculeWrites /\ pc'[s] # pc[s]
                                 /\ HasRole(user[s].id, {"admin", "directeur"})
      /\ types_vehicules' # types_vehicules =>
            \E s \in Sessions : /\ pc[s] \in TypeWrites /\ pc'[s] # pc[s]
                                 /\ HasRole(user[s].id, {"admin"})
      /\ \A s \in Sessions :
            form[s].fetching /\ ~form'[s].fetching /\ page'[s] = "new"
               /\ faults' = faults =>
              form'[s].vehicules = { v \in DOMAIN vehicules : vehicules[v].actif }
    ]_vars

(* -------------------------------- C28 ---------------------------------- *)
\* The rows that refer to vehicule v, and to type t.
RefersToVehicule(v) ==
  \E i \in 1..Len(demandes_carburant) : demandes_carburant[i].id_vehicule = v

RefersToType(t) ==
  \E v \in DOMAIN vehicules : vehicules[v].id_type = t

\* C28: every request refers to a stored vehicule and every vehicule to a
\* stored type; the delete of a vehicule that a request refers to, or of a
\* type that a vehicule refers to, fails: its handler ends with the error
\* toast, the store is as it was, and no log entry is written for it.
C28_ReferentialIntegrity ==
  /\ [](/\ \A i \in 1..Len(demandes_carburant) :
             demandes_carburant[i].id_vehicule \in DOMAIN vehicules
        /\ \A v \in DOMAIN vehicules : vehicules[v].id_type \in types_vehicules)
  /\ [][ \A s \in Sessions :
           /\ pc'[s] # pc[s]
           /\ \/ pc[s] = "v_delete" /\ RefersToVehicule(frame[s].target)
              \/ pc[s] = "t_delete" /\ RefersToType(frame[s].target)
           => /\ UNCHANGED storeVars
              /\ pc'[s] = "idle"
              /\ toast' = "Erreur lors de la suppression" ]_vars

(* -------------------------------- C30 ---------------------------------- *)
\* A sign-up of createDemoUsers is issued in this step.
SignUpIssued ==
  /\ visitor'.page = "setup" /\ visitor'.pc = "signUp"
  /\ visitor.page = "setup"
  /\ visitor.pc # "signUp" \/ visitor'.i # visitor.i

====
